---- MODULE Spec2Model ----
(***************************************************************************)
(* HY-Motion microservice (src/api.py): the lazily created T2MRuntime      *)
(* singleton, the MMGP offload applier, and the POST /v1/motion and        *)
(* GET /health handlers, run by the lifespan (startup) thread and by the   *)
(* worker threads the framework gives to synchronous handlers.             *)
(*                                                                         *)
(* Every worker step is one access to shared state (the global _runtime,   *)
(* the file system, the temporary directories) or one call into a          *)
(* collaborator (T2MRuntime, mmgp); purely local code between two such     *)
(* points is folded into the step that precedes it.                        *)
(***************************************************************************)
EXTENDS Integers, Sequences, FiniteSets, TLC

\* ------------------------------------------------------------------ bounds
NumWorkers == 2          \* worker threads serving POST /v1/motion
MaxCtor == 2             \* T2MRuntime constructor invocations over a run

\* ------------------------------------------------------- program constants
MOTION_FPS == 30
MMGP_BUDGET == 4000

Startup == 0
Workers == 1..NumWorkers
Threads == {Startup} \cup Workers
None == 0                \* _runtime = None; handles are 1..MaxCtor
HandleIds == 1..MaxCtor

\* ------------------------------------------------------------ environment
\* An environment variable is <<>> when unset and <<s>> when set to string s.
Unset == <<>>
EnvGet(var, default) == IF var = <<>> THEN default ELSE var[1]

\* int(s) on the strings the model uses: the integer, or ValueError.
IntLiterals ==
  [s \in {"-1", "0", "1", "2", "3", "4", "5"} |->
     CASE s = "-1" -> -1 [] s = "0" -> 0 [] s = "1" -> 1 [] s = "2" -> 2
       [] s = "3" -> 3 [] s = "4" -> 4 [] s = "5" -> 5]
int(s) ==
  IF s \in DOMAIN IntLiterals
    THEN [ok |-> TRUE, val |-> IntLiterals[s]]
    ELSE [ok |-> FALSE, val |-> 0]

\* The process environments a run starts in: MMGP_PROFILE and MMGP_VERBOSE.
ProfileSettings == {Unset, <<"abc">>, <<"-1">>, <<"0">>, <<"1">>, <<"2">>, <<"3">>, <<"5">>}
VerboseSettings == {Unset, <<"loud">>, <<"0">>, <<"2">>}
Environments ==
  { [MMGP_PROFILE |-> Unset,     MMGP_VERBOSE |-> Unset],
    [MMGP_PROFILE |-> <<"abc">>, MMGP_VERBOSE |-> <<"2">>],
    [MMGP_PROFILE |-> <<"2">>,   MMGP_VERBOSE |-> <<"loud">>] }

\* ---------------------------------------------------------- _apply_mmgp
\* Outcomes of the collaborators _apply_mmgp calls.
ImportOutcomes == {"ok", "ImportError", "error"}      \* from mmgp import offload
ExtractOutcomes == {"components", "empty", "error"}   \* extract_models_for_mmgp()
TuneOutcomes == {"ok", "error"}                       \* offload.profile(...)

\* What one call did: the exception it raised ("" when it returned), whether
\* extract_models_for_mmgp was called, whether offload.profile was called
\* and with which profile_no, verboseLevel and budgets (0: no budgets
\* argument), whether it returned, and the line printed last.
ApplyResult(raised, extracted, invoked, tuned, profile_no, verbose, budget, log) ==
  [raised |-> raised, extracted |-> extracted, invoked |-> invoked, tuned |-> tuned,
   profile_no |-> profile_no, verbose |-> verbose, budget |-> budget, log |-> log]

\* Lines 54-56 with the test on profile 3 left out.
budgetsUnlessOne(profile) == IF profile # 1 THEN MMGP_BUDGET ELSE 0

\* Lines 54-56: kwargs["budgets"] for the profile, 0 when kwargs stays empty.
budgets(profile) == IF profile # 1 /\ profile # 3 THEN MMGP_BUDGET ELSE 0

\* _apply_mmgp(runtime) under environment e, given what the import, the
\* extraction and the tuning pass do.
_apply_mmgp(e, imp, pipe, tune) ==
  LET p == int(EnvGet(e.MMGP_PROFILE, "1"))
      v == int(EnvGet(e.MMGP_VERBOSE, "1"))
  IN  IF ~p.ok THEN ApplyResult("ValueError", FALSE, FALSE, FALSE, 0, 0, 0, "")
      ELSE IF p.val <= 0 THEN ApplyResult("", FALSE, FALSE, FALSE, p.val, 0, 0, "")
      ELSE IF imp = "ImportError"
        THEN ApplyResult("", FALSE, FALSE, FALSE, p.val, 0, 0, "INFO mmgp not installed")
      ELSE IF imp = "error"
        THEN ApplyResult("", FALSE, FALSE, FALSE, p.val, 0, 0, "ERROR")
      ELSE IF pipe = "error"
        THEN ApplyResult("", TRUE, FALSE, FALSE, p.val, 0, 0, "ERROR")
      ELSE IF pipe = "empty"
        THEN ApplyResult("", TRUE, FALSE, FALSE, p.val, 0, 0, "WARNING no models extracted")
      ELSE IF ~v.ok
        THEN ApplyResult("", TRUE, FALSE, FALSE, p.val, 0, budgets(p.val), "ERROR")
      ELSE IF tune = "error"
        THEN ApplyResult("", TRUE, TRUE, FALSE, p.val, v.val, budgets(p.val), "ERROR")
      ELSE ApplyResult("", TRUE, TRUE, TRUE, p.val, v.val, budgets(p.val), "active")

\* ------------------------------------------------------ _tensor_to_list
\* An array is [kind, ndim, data]: ndim is len(x.shape) and data the nested
\* sequence of its elements, batch axis first (a number when ndim is 0).  A
\* torch tensor has cpu, numpy, shape and tolist; a numpy array has shape
\* and tolist; a plain list has none of them.
ArrayKinds == {"cuda_tensor", "cpu_tensor", "ndarray", "list"}
Arr(kind, ndim, data) == [kind |-> kind, ndim |-> ndim, data |-> data]
hasattr_cpu(x) == x.kind \in {"cuda_tensor", "cpu_tensor"}
hasattr_numpy(x) == x.kind \in {"cuda_tensor", "cpu_tensor"}
hasattr_shape(x) == x.kind \in {"cuda_tensor", "cpu_tensor", "ndarray"}
hasattr_tolist(x) == x.kind \in {"cuda_tensor", "cpu_tensor", "ndarray"}
cpu(x) == Arr("cpu_tensor", x.ndim, x.data)
numpy(x) == Arr("ndarray", x.ndim, x.data)

\* _tensor_to_list(x): the plain nested sequence, or the exception raised
\* (IndexError: x[0] on an empty batch axis; AttributeError: no tolist).
_tensor_to_list(x) ==
  LET x1 == IF hasattr_cpu(x) THEN cpu(x) ELSE x
      x2 == IF hasattr_numpy(x1) THEN numpy(x1) ELSE x1
      index == hasattr_shape(x2) /\ x2.ndim >= 1
  IN  IF index /\ Len(x2.data) = 0 THEN [ok |-> FALSE, val |-> <<>>, exc |-> "IndexError"]
      ELSE IF ~hasattr_tolist(x2) THEN [ok |-> FALSE, val |-> <<>>, exc |-> "AttributeError"]
      ELSE [ok |-> TRUE, val |-> IF index THEN x2.data[1] ELSE x2.data, exc |-> ""]

\* ------------------------------------------------------- model output
OutputKeys == {"keypoints3d", "rot6d", "transl", "root_rotations_mat"}
\* One generated sample of two frames, batch axis first: shape (1, 2).
SampleData == << <<1, 2>> >>
\* What runtime.generate_motion(output_format="dict") may hand back: a dict
\* whose values are arrays of one kind; keys are the names present.
ModelOutput(keys, kind) == [keys |-> keys, kind |-> kind]
ModelOutputs ==
  { ModelOutput(OutputKeys, "cuda_tensor"),
    ModelOutput(OutputKeys, "list"),
    ModelOutput(OutputKeys \ {"keypoints3d"}, "cuda_tensor") }

\* Lines 150-170 on model_output: the response the request ends with.  A
\* missing key (KeyError), a value with no shape (AttributeError) or a
\* failing _tensor_to_list is raised outside every try block and leaves
\* the handler unhandled: the framework answers 500.
Unhandled == [status |-> 500, motion |-> <<>>, num_frames |-> 0, fps |-> 0]
BuildResponse(out) ==
  LET x == Arr(out.kind, 2, SampleData)
  IN  IF ~(OutputKeys \subseteq out.keys) THEN Unhandled
      ELSE IF ~hasattr_shape(x) \/ x.ndim < 2 THEN Unhandled
      ELSE IF ~_tensor_to_list(x).ok THEN Unhandled
      ELSE [status |-> 200, motion |-> _tensor_to_list(x).val,
            num_frames |-> Len(x.data[1]), fps |-> MOTION_FPS]

\* ------------------------------------------------------ MotionRequest
\* A field is <<>> when omitted and <<v>> when given.  duration and
\* cfg_scale are in tenths (0.5 is 5, 30.0 is 300).
Field(f, default) == IF f = <<>> THEN default ELSE f[1]
\* MotionRequest with the upper bound of cfg_scale exclusive (lt=20.0).
MotionRequestValidExclusive(req) ==
  /\ req.text # <<>>
  /\ req.text[1] >= 1 /\ req.text[1] <= 2000
  /\ Field(req.duration, 30) >= 5 /\ Field(req.duration, 30) <= 300
  /\ Field(req.seed, 42) >= 0
  /\ Field(req.cfg_scale, 50) >= 10 /\ Field(req.cfg_scale, 50) < 200
MotionRequestValid(req) ==
  /\ req.text # <<>>
  /\ req.text[1] >= 1 /\ req.text[1] <= 2000
  /\ Field(req.duration, 30) >= 5 /\ Field(req.duration, 30) <= 300
  /\ Field(req.seed, 42) >= 0
  /\ Field(req.cfg_scale, 50) >= 10 /\ Field(req.cfg_scale, 50) <= 200
Request(text, duration, seed, cfg_scale) ==
  [text |-> text, duration |-> duration, seed |-> seed, cfg_scale |-> cfg_scale]
\* The request bodies a run receives: the defaults, both ends of every
\* range, and one step outside each end.
Requests ==
  { Request(<<1>>, <<>>, <<>>, <<>>),
    Request(<<1>>, <<5>>, <<0>>, <<10>>),
    Request(<<2000>>, <<300>>, <<42>>, <<200>>),
    Request(<<>>, <<>>, <<>>, <<>>),
    Request(<<0>>, <<>>, <<>>, <<>>),
    Request(<<2001>>, <<>>, <<>>, <<>>),
    Request(<<1>>, <<4>>, <<>>, <<>>),
    Request(<<1>>, <<301>>, <<>>, <<>>),
    Request(<<1>>, <<>>, <<-1>>, <<>>),
    Request(<<1>>, <<>>, <<>>, <<9>>),
    Request(<<1>>, <<>>, <<>>, <<201>>) }

\* ------------------------------------------------------------------ state
VARIABLES
  phase,          \* "startup" while lifespan preloads, then "serving"
  env,            \* the process environment (MMGP_PROFILE, MMGP_VERBOSE)
  configExists,   \* os.path.exists(CONFIG_PATH)
  ckptExists,     \* os.path.exists(CKPT_PATH)
  _runtime,       \* the module global: None or a handle
  handles,        \* per handle: the _apply_mmgp calls begun and ended on it
  ctorCalls,      \* T2MRuntime(...) invocations so far
  ctorOk,         \* handles constructed so far (they are 1..ctorOk)
  applyCalls,     \* _apply_mmgp invocations so far
  returned,       \* handles get_runtime has returned so far
  workspaces,     \* the temporary directories that exist on disk
  pc,             \* per thread: where it stands
  seen,           \* per thread: the value line 70 read from _runtime
  skip_loading,   \* per thread: the local of line 73
  arg,            \* per thread: the handle passed to _apply_mmgp (line 84)
  runtime,        \* per thread: what get_runtime returned to it (line 129)
  exc,            \* per thread: the exception that ended its get_runtime call
  tmpdir,         \* per thread: its TemporaryDirectory, 0 when none
  status,         \* per thread: the status its request ends with
  detail,         \* per thread: the detail prefix of its 503
  probe           \* what an observer of the run has recorded

shared == <<phase, env, configExists, ckptExists, _runtime, handles, ctorCalls,
            ctorOk, applyCalls, returned, workspaces>>
locals == <<pc, seen, skip_loading, arg, runtime, exc, tmpdir, status, detail>>
vars == <<shared, locals, probe>>

NoHandle == [begun |-> 0, done |-> 0]
Raised == [keys |-> {}, kind |-> "raised"]
\* A temporary directory's name is one no existing directory has.
DirNames == 1..NumWorkers + 1

GetRuntimePcs == {"gr_test", "gr_config", "gr_ctor", "gr_apply", "gr_applying",
                  "gr_return"}

\* The observer has recorded nothing.
NoProbe == [stage |-> "none"]

\* The process when lifespan starts: no handle, every worker idle.
Imported ==
  /\ phase = "startup"
  /\ configExists \in BOOLEAN
  /\ ckptExists \in BOOLEAN
  /\ _runtime = None
  /\ handles = [h \in HandleIds |-> NoHandle]
  /\ ctorCalls = 0 /\ ctorOk = 0 /\ applyCalls = 0
  /\ returned = {}
  /\ workspaces = {}
  /\ pc = [t \in Threads |-> IF t = Startup THEN "gr_test" ELSE "idle"]
  /\ seen = [t \in Threads |-> None]
  /\ skip_loading = [t \in Threads |-> FALSE]
  /\ arg = [t \in Threads |-> None]
  /\ runtime = [t \in Threads |-> None]
  /\ exc = [t \in Threads |-> ""]
  /\ tmpdir = [t \in Threads |-> 0]
  /\ status = [t \in Threads |-> 0]
  /\ detail = [t \in Threads |-> ""]

Init == Imported /\ env \in Environments /\ probe = NoProbe

\* --------------------------------------------------------- the file system
\* config.yml and latest.ckpt appear and disappear under the service.
ConfigChange ==
  /\ configExists' = ~configExists
  /\ UNCHANGED <<probe, phase, env, ckptExists, _runtime, handles, ctorCalls, ctorOk,
                 applyCalls, returned, workspaces, locals>>

CkptChange ==
  /\ ckptExists' = ~ckptExists
  /\ UNCHANGED <<probe, phase, env, configExists, _runtime, handles, ctorCalls, ctorOk,
                 applyCalls, returned, workspaces, locals>>

\* ------------------------------------------------- the callers of get_runtime
\* generate_motion with the raise of lines 131 and 133 left out: the
\* exception is noted and the handler falls through to the with block.
GetRuntimeRaisesFallsThrough(t, e) ==
  /\ exc' = [exc EXCEPT ![t] = e]
  /\ seen' = [seen EXCEPT ![t] = None]
  /\ skip_loading' = [skip_loading EXCEPT ![t] = FALSE]
  /\ arg' = [arg EXCEPT ![t] = None]
  /\ IF t = Startup
       THEN /\ pc' = [pc EXCEPT ![t] = "lifespan_yield"]
            /\ detail' = [detail EXCEPT ![t] = "Runtime not loaded at startup"]
            /\ UNCHANGED status
       ELSE /\ pc' = [pc EXCEPT ![t] = "with_enter"]
            /\ UNCHANGED <<status, detail>>
  /\ UNCHANGED <<runtime, tmpdir>>

\* get_runtime raised e in thread t: the call's locals are gone.  lifespan
\* catches it (line 105); generate_motion answers 503 (lines 130-133).
GetRuntimeRaises(t, e) ==
  /\ exc' = [exc EXCEPT ![t] = e]
  /\ seen' = [seen EXCEPT ![t] = None]
  /\ skip_loading' = [skip_loading EXCEPT ![t] = FALSE]
  /\ arg' = [arg EXCEPT ![t] = None]
  /\ IF t = Startup
       THEN /\ pc' = [pc EXCEPT ![t] = "lifespan_yield"]
            /\ detail' = [detail EXCEPT ![t] = "Runtime not loaded at startup"]
            /\ UNCHANGED status
       ELSE /\ pc' = [pc EXCEPT ![t] = "respond"]
            /\ status' = [status EXCEPT ![t] = 503]
            /\ detail' = [detail EXCEPT ![t] =
                 IF e = "FileNotFoundError" THEN "Model not available"
                                            ELSE "Service unavailable"]
  /\ UNCHANGED <<runtime, tmpdir>>

\* get_runtime returned handle h to thread t.  lifespan goes on to yield;
\* generate_motion goes on to the with block (line 135).
GetRuntimeReturns(t, h) ==
  /\ returned' = returned \cup {h}
  /\ runtime' = [runtime EXCEPT ![t] = h]
  /\ seen' = [seen EXCEPT ![t] = None]
  /\ skip_loading' = [skip_loading EXCEPT ![t] = FALSE]
  /\ arg' = [arg EXCEPT ![t] = None]
  /\ pc' = [pc EXCEPT ![t] = IF t = Startup THEN "lifespan_yield" ELSE "with_enter"]
  /\ UNCHANGED <<exc, tmpdir, status, detail>>

\* ------------------------------------------------------------- get_runtime
\* Line 70: if _runtime is None.
GrTest(t) ==
  /\ pc[t] = "gr_test"
  /\ seen' = [seen EXCEPT ![t] = _runtime]
  /\ pc' = [pc EXCEPT ![t] = IF _runtime = None THEN "gr_config" ELSE "gr_return"]
  /\ UNCHANGED <<probe, shared, skip_loading, arg, runtime, exc, tmpdir, status, detail>>

\* Line 73 with the test left out: the weights are always loaded.
skipNever(ckpt) == FALSE

\* Line 73: skip_loading = not os.path.exists(CKPT_PATH), passed to the
\* constructor as skip_model_loading (line 79).
skip_model_loading(ckpt) == ~ckpt

\* get_runtime with the existence check of lines 71-72 left out: the
\* constructor is entered whether or not the config file is there.
GrConfigUnchecked(t) ==
  /\ pc[t] = "gr_config"
  /\ ctorCalls < MaxCtor
  /\ skip_loading' = [skip_loading EXCEPT ![t] = skip_model_loading(ckptExists)]
  /\ ctorCalls' = ctorCalls + 1
  /\ pc' = [pc EXCEPT ![t] = "gr_ctor"]
  /\ UNCHANGED <<probe, phase, env, configExists, ckptExists, _runtime, handles, ctorOk,
                 applyCalls, returned, workspaces,
                 seen, arg, runtime, exc, tmpdir, status, detail>>

\* Lines 71-74: the config file must exist; skip_loading is set from the
\* checkpoint file and T2MRuntime(...) is entered.
GrConfig(t) ==
  /\ pc[t] = "gr_config"
  /\ IF configExists
       THEN /\ ctorCalls < MaxCtor
            /\ skip_loading' = [skip_loading EXCEPT ![t] = skip_model_loading(ckptExists)]
            /\ ctorCalls' = ctorCalls + 1
            /\ pc' = [pc EXCEPT ![t] = "gr_ctor"]
            /\ UNCHANGED <<seen, arg, runtime, exc, tmpdir, status, detail>>
       ELSE /\ GetRuntimeRaises(t, "FileNotFoundError")
            /\ UNCHANGED ctorCalls
  /\ UNCHANGED <<probe, phase, env, configExists, ckptExists, _runtime, handles, ctorOk,
                 applyCalls, returned, workspaces>>

\* Lines 74-83: T2MRuntime(...) returns and the result is stored in
\* _runtime, or it raises and nothing is stored.
GrCtorEnd(t) ==
  /\ pc[t] = "gr_ctor"
  /\ \E ok \in BOOLEAN :
       IF ok
         THEN /\ ctorOk' = ctorOk + 1
              /\ _runtime' = ctorOk + 1
              /\ pc' = [pc EXCEPT ![t] = "gr_apply"]
              /\ skip_loading' = [skip_loading EXCEPT ![t] = FALSE]
              /\ UNCHANGED <<seen, arg, runtime, exc, tmpdir, status, detail>>
         ELSE /\ GetRuntimeRaises(t, "RuntimeError")
              /\ UNCHANGED <<ctorOk, _runtime>>
  /\ UNCHANGED <<probe, phase, env, configExists, ckptExists, handles, ctorCalls,
                 applyCalls, returned, workspaces>>

\* Line 84: _apply_mmgp(_runtime) is entered with the global read anew.
GrApplyBegin(t) ==
  /\ pc[t] = "gr_apply"
  /\ arg' = [arg EXCEPT ![t] = _runtime]
  /\ applyCalls' = applyCalls + 1
  /\ handles' = [handles EXCEPT ![_runtime].begun = @ + 1]
  /\ pc' = [pc EXCEPT ![t] = "gr_applying"]
  /\ UNCHANGED <<probe, phase, env, configExists, ckptExists, _runtime, ctorCalls, ctorOk,
                 returned, workspaces,
                 seen, skip_loading, runtime, exc, tmpdir, status, detail>>

\* Lines 41-65: _apply_mmgp ends, returning or raising.
GrApplyEnd(t) ==
  /\ pc[t] = "gr_applying"
  /\ handles' = [handles EXCEPT ![arg[t]].done = @ + 1]
  /\ \E imp \in ImportOutcomes, pipe \in ExtractOutcomes, tune \in TuneOutcomes :
       LET r == _apply_mmgp(env, imp, pipe, tune)
       IN  IF r.raised = ""
             THEN /\ pc' = [pc EXCEPT ![t] = "gr_return"]
                  /\ UNCHANGED <<seen, skip_loading, arg, runtime, exc,
                                 tmpdir, status, detail>>
             ELSE GetRuntimeRaises(t, r.raised)
  /\ UNCHANGED <<probe, phase, env, configExists, ckptExists, _runtime, ctorCalls, ctorOk,
                 applyCalls, returned, workspaces>>

\* Line 85: return _runtime, the global read anew.
GrReturn(t) ==
  /\ pc[t] = "gr_return"
  /\ GetRuntimeReturns(t, _runtime)
  /\ UNCHANGED <<probe, phase, env, configExists, ckptExists, _runtime, handles, ctorCalls,
                 ctorOk, applyCalls, workspaces>>

\* ---------------------------------------------------------------- lifespan
\* Lines 103-107: whatever get_runtime did, startup completes and the
\* service starts to accept requests.
LifespanYield ==
  /\ pc[Startup] = "lifespan_yield"
  /\ phase' = "serving"
  /\ pc' = [pc EXCEPT ![Startup] = "yielded"]
  /\ exc' = [exc EXCEPT ![Startup] = ""]
  /\ detail' = [detail EXCEPT ![Startup] = ""]
  /\ runtime' = [runtime EXCEPT ![Startup] = None]
  /\ UNCHANGED <<probe, env, configExists, ckptExists, _runtime, handles, ctorCalls, ctorOk,
                 applyCalls, returned, workspaces,
                 seen, skip_loading, arg, tmpdir, status>>

\* --------------------------------------------------------- POST /v1/motion
\* The framework validates the body req against MotionRequest and answers
\* 422 itself, or calls generate_motion, which starts with get_runtime().
Route(t, req) ==
  /\ phase = "serving"
  /\ pc[t] = "idle"
  /\ IF MotionRequestValid(req)
       THEN /\ pc' = [pc EXCEPT ![t] = "gr_test"]
            /\ UNCHANGED status
       ELSE /\ pc' = [pc EXCEPT ![t] = "respond"]
            /\ status' = [status EXCEPT ![t] = 422]
  /\ UNCHANGED <<shared, seen, skip_loading, arg, runtime, exc, tmpdir, detail>>

Receive(t) ==
  /\ \E req \in Requests : Route(t, req)
  /\ UNCHANGED probe

\* tempfile.TemporaryDirectory(): a directory under a name not in use.
mkdtemp(dirs) == CHOOSE d \in DirNames \ dirs : \A e \in DirNames \ dirs : d <= e

\* Lines 135-137: the TemporaryDirectory is created and
\* runtime.generate_motion(...) is entered.
WithEnter(t) ==
  /\ pc[t] = "with_enter"
  /\ DirNames \ workspaces # {}
  /\ tmpdir' = [tmpdir EXCEPT ![t] = mkdtemp(workspaces)]
  /\ workspaces' = workspaces \cup {mkdtemp(workspaces)}
  /\ pc' = [pc EXCEPT ![t] = "generating"]
  /\ UNCHANGED <<probe, phase, env, configExists, ckptExists, _runtime, handles, ctorCalls,
                 ctorOk, applyCalls, returned,
                 seen, skip_loading, arg, runtime, exc, status, detail>>

\* A with block whose cleanup runs on the success path only.
CleanupOnSuccess(dirs, d, raised) == IF raised THEN dirs ELSE dirs \ {d}

\* What leaving the with block does to the directories on disk.
Cleanup(dirs, d, raised) == dirs \ {d}

\* Lines 137-170: generate_motion returns its dict or raises; the with
\* block is left, which removes the directory; and the request ends: 503
\* when generate raised, else with what building the response gives.
GenerateEnd(t) ==
  /\ pc[t] = "generating"
  /\ \E model_output \in ModelOutputs \cup {Raised} :
       /\ workspaces' = Cleanup(workspaces, tmpdir[t], model_output = Raised)
       /\ IF model_output = Raised
            THEN /\ status' = [status EXCEPT ![t] = 503]
                 /\ detail' = [detail EXCEPT ![t] = "Generation failed"]
            ELSE /\ status' = [status EXCEPT ![t] = BuildResponse(model_output).status]
                 /\ UNCHANGED detail
  /\ tmpdir' = [tmpdir EXCEPT ![t] = 0]
  /\ runtime' = [runtime EXCEPT ![t] = None]
  /\ pc' = [pc EXCEPT ![t] = "respond"]
  /\ UNCHANGED <<probe, phase, env, configExists, ckptExists, _runtime, handles, ctorCalls,
                 ctorOk, applyCalls, returned,
                 seen, skip_loading, arg, exc>>

\* The response leaves; the worker is free for the next request.
Answer(t) ==
  /\ pc[t] = "respond"
  /\ pc' = [pc EXCEPT ![t] = "idle"]
  /\ status' = [status EXCEPT ![t] = 0]
  /\ detail' = [detail EXCEPT ![t] = ""]
  /\ exc' = [exc EXCEPT ![t] = ""]
  /\ UNCHANGED <<shared, seen, skip_loading, arg, runtime, tmpdir>>

Respond(t) == Answer(t) /\ UNCHANGED probe

\* ------------------------------------------------------------- GET /health
\* Lines 121-123: the body returned, and the handler, which reads and
\* writes nothing.
health == [status |-> "ok"]

\* A health handler that reports through the singleton and drops it.
healthCallDropsRuntime ==
  /\ phase = "serving"
  /\ _runtime' = None
  /\ UNCHANGED <<phase, env, configExists, ckptExists, handles, ctorCalls, ctorOk,
                 applyCalls, returned, workspaces, locals>>

healthCall ==
  /\ phase = "serving"
  /\ health.status = "ok"
  /\ UNCHANGED <<shared, locals>>

Health == healthCall /\ UNCHANGED probe

\* ---------------------------------------------------------------- the system
GetRuntimeStep(t) ==
  \/ GrTest(t) \/ GrConfig(t) \/ GrCtorEnd(t)
  \/ GrApplyBegin(t) \/ GrApplyEnd(t) \/ GrReturn(t)

Next ==
  \/ ConfigChange
  \/ CkptChange
  \/ Health
  \/ LifespanYield
  \/ \E t \in Threads : GetRuntimeStep(t)
  \/ \E t \in Workers : Receive(t) \/ WithEnter(t) \/ GenerateEnd(t) \/ Respond(t)

Spec == Init /\ [][Next]_vars

\* -------------------------------------------- one request under observation
\* The bodies a client may post: every field omitted, at either end of its
\* range, or one step outside it (the text field is its length).
TextLengths == {<<>>, <<0>>, <<1>>, <<2000>>, <<2001>>}
Durations == {<<>>, <<4>>, <<5>>, <<300>>, <<301>>}
Seeds == {<<>>, <<-1>>, <<0>>}
CfgScales == {<<>>, <<9>>, <<10>>, <<200>>, <<201>>}
AllRequests ==
  {Request(x, d, n, c) : x \in TextLengths, d \in Durations, n \in Seeds, c \in CfgScales}

\* The same service with one worker, whose request body is on record from
\* its arrival to its response.
Observed == 1
ReceiveObserved ==
  \E req \in AllRequests :
    /\ Route(Observed, req)
    /\ probe' = [stage |-> "request", req |-> req]

RespondObserved == Answer(Observed) /\ probe' = NoProbe

NextValidate ==
  \/ ConfigChange
  \/ CkptChange
  \/ LifespanYield
  \/ \E t \in {Startup, Observed} : GetRuntimeStep(t)
  \/ ReceiveObserved
  \/ WithEnter(Observed)
  \/ GenerateEnd(Observed)
  \/ RespondObserved

SpecValidate == Init /\ [][NextValidate]_vars

\* ------------------------------------------- GET /health under observation
\* The same service, followed up to its first answer to GET /health, which
\* is recorded: the status code and the body.
NoAnswer == [stage |-> "health", code |-> 0, body |-> [status |-> ""]]
InitHealth == Imported /\ env \in Environments /\ probe = NoAnswer

HealthObserved ==
  /\ probe = NoAnswer
  /\ healthCall
  /\ probe' = [stage |-> "health", code |-> 200, body |-> health]

ServeUnobserved ==
  /\ probe = NoAnswer
  /\ \/ ConfigChange
     \/ CkptChange
     \/ LifespanYield
     \/ \E t \in Threads : GetRuntimeStep(t)
     \/ \E t \in Workers : Receive(t) \/ WithEnter(t) \/ GenerateEnd(t) \/ Respond(t)

NextHealth == HealthObserved \/ ServeUnobserved

SpecHealth == InitHealth /\ [][NextHealth]_vars

\* ------------------------------------------------- _apply_mmgp, call by call
\* Every setting of the two variables, and calls of _apply_mmgp under them
\* with every outcome of its collaborators; each call's result is recorded.
AllEnvironments == [MMGP_PROFILE : ProfileSettings, MMGP_VERBOSE : VerboseSettings]
InitApply == Imported /\ env \in AllEnvironments /\ probe = NoProbe

Apply ==
  /\ \E imp \in ImportOutcomes, pipe \in ExtractOutcomes, tune \in TuneOutcomes :
       probe' = [stage |-> "applied", imp |-> imp, pipe |-> pipe, tune |-> tune,
                 result |-> _apply_mmgp(env, imp, pipe, tune)]
  /\ UNCHANGED <<shared, locals>>

NextApply == Apply
SpecApply == InitApply /\ [][NextApply]_vars

\* --------------------------------------------- _tensor_to_list, call by call
\* Arrays of every kind with a batch axis of 0 to MaxBatch samples, each
\* sample 1 to MaxFrames frames; a frame is one number of Values.
MaxBatch == 2
MaxFrames == 2
Values == {0, 1}
SeqsUpTo(S, lo, hi) == UNION {[1..n -> S] : n \in lo..hi}
Samples == SeqsUpTo(Values, 1, MaxFrames)
Arrays == {Arr(kind, 2, data) : kind \in ArrayKinds, data \in SeqsUpTo(Samples, 0, MaxBatch)}

InitSerialize == Imported /\ env \in Environments /\ probe = NoProbe

Serialize ==
  /\ \E x \in Arrays :
       probe' = [stage |-> "serialized", x |-> x, result |-> _tensor_to_list(x)]
  /\ UNCHANGED <<shared, locals>>

NextSerialize == Serialize
SpecSerialize == InitSerialize /\ [][NextSerialize]_vars

\* ==================================================================== claims
InGetRuntime(t) == pc[t] \in GetRuntimePcs
Generating == {t \in Workers : pc[t] = "generating"}
\* Constructor invocations that have ended by raising.
CtorFailures == ctorCalls - ctorOk - Cardinality({t \in Threads : pc[t] = "gr_ctor"})
\* Thread t's get_runtime call ends in this step by raising.
RaisesNow(t) == InGetRuntime(t) /\ exc'[t] # ""

\* C1: as long as no constructor invocation has failed, T2MRuntime(...) has
\* been invoked at most once and _apply_mmgp at most once, however the first
\* get_runtime calls interleave.
C1_ConstructedOnce ==
  CtorFailures = 0 => (ctorCalls <= 1 /\ applyCalls <= 1)

\* C2: at most one runtime.generate_motion call is in flight at any time.
C2_GenerateExclusive == Cardinality(Generating) <= 1

\* C3: every get_runtime call that returns yields the same handle, and
\* _runtime, once set to a handle, is never set to another.
C3_SameInstance ==
  [][/\ _runtime # None => _runtime' = _runtime
     /\ Cardinality(returned') <= 1]_vars

\* C4: a get_runtime call that finds no handle always goes on to the config
\* check; when the file is absent there it raises FileNotFoundError without
\* invoking the constructor and without storing anything in _runtime, and
\* when the file is present it goes on to construct, whatever earlier calls
\* did.
C4_FailureNotCached ==
  [][\A t \in Threads :
       /\ (pc[t] = "gr_test" /\ pc'[t] # "gr_test" /\ _runtime = None)
            => pc'[t] = "gr_config"
       /\ (pc[t] = "gr_config" /\ pc'[t] # "gr_config") =>
            IF configExists
              THEN /\ pc'[t] = "gr_ctor"
                   /\ ctorCalls' = ctorCalls + 1
                   /\ exc'[t] = ""
              ELSE /\ exc'[t] = "FileNotFoundError"
                   /\ seen[t] = None
                   /\ _runtime' = _runtime
                   /\ ctorCalls' = ctorCalls /\ ctorOk' = ctorOk
                   /\ handles' = handles]_vars

\* A call has failed on the missing config file, nothing was constructed for
\* it, and another call, finding the file, is constructing.
C4_Witness ==
  \E t \in Workers, u \in Workers :
    /\ exc[t] = "FileNotFoundError" /\ pc[t] = "respond"
    /\ pc[u] = "gr_ctor" /\ _runtime = None /\ ctorCalls = 1

\* C5: whenever a get_runtime call ends by raising, _runtime is None after
\* the call.
C5_NoHalfCreated ==
  [][\A t \in Threads : RaisesNow(t) => _runtime' = None]_vars

\* C6: a get_runtime call that finds a handle goes straight to its return
\* without invoking the constructor or the applier, and returns the handle
\* it found; no handle has the applier invoked on it more than once.
C6_FastPath ==
  [][\A t \in Threads :
       /\ (pc[t] = "gr_test" /\ pc'[t] # "gr_test" /\ _runtime # None) =>
            /\ pc'[t] = "gr_return"
            /\ ctorCalls' = ctorCalls /\ applyCalls' = applyCalls
       /\ (pc[t] = "gr_return" /\ pc'[t] # "gr_return" /\ seen[t] # None) =>
            runtime'[t] = seen[t]
       /\ \A h \in HandleIds : handles'[h].begun <= 1]_vars

\* C7: every _apply_mmgp call returns normally, and get_runtime goes on to
\* return the handle.
C7_ApplierNeverRaises ==
  [][\A t \in Threads :
       (pc[t] = "gr_applying" /\ pc'[t] # "gr_applying") =>
         (pc'[t] = "gr_return" /\ exc'[t] = "")]_vars

\* C8: the directories on disk are exactly those of the requests whose
\* generate call is in flight, one each; a request that is not in its
\* generate call, whether it has not reached it or has ended, successfully or
\* not, has none.
C8_WorkspaceScoped ==
  /\ workspaces = {tmpdir[t] : t \in Generating}
  /\ \A t \in Generating, u \in Generating : t # u => tmpdir[t] # tmpdir[u]
  /\ \A t \in Threads : t \notin Generating => tmpdir[t] = 0

\* A request has ended because generate raised, its directory is gone, and
\* another request's generate call is in flight with its directory on disk.
C8_Witness ==
  \E t \in Workers, u \in Workers :
    /\ pc[t] = "respond" /\ detail[t] = "Generation failed" /\ tmpdir[t] = 0
    /\ pc[u] = "generating" /\ workspaces = {tmpdir[u]}

\* C9: every request ends with status 200, 422 or 503.
C9_StatusCodes ==
  \A t \in Workers : status[t] \in {0, 200, 422, 503}

\* C10: a request whose get_runtime call raises is answered 503 in that
\* step, which creates no directory; the request owns no directory and no
\* handle, and never leaves the response for the with block.
C10_RejectedUnattempted ==
  [][\A t \in Workers :
       /\ RaisesNow(t) =>
            /\ pc'[t] = "respond" /\ status'[t] = 503
            /\ detail'[t] \in {"Model not available", "Service unavailable"}
            /\ workspaces' = workspaces
       /\ exc[t] # "" =>
            /\ pc[t] = "respond" /\ tmpdir[t] = 0 /\ runtime[t] = None
            /\ pc'[t] \in {"respond", "idle"} /\ tmpdir'[t] = 0]_vars

\* A request has been answered 503 because the constructor raised.
C10_Witness ==
  \E t \in Workers :
    /\ pc[t] = "respond" /\ exc[t] = "RuntimeError" /\ status[t] = 503
    /\ detail[t] = "Service unavailable" /\ workspaces = {}

\* What the contract admits, in the units of MotionRequest above: a text of
\* 1 to 2000 characters, a duration of 0.5 to 30.0, a seed of at least 0
\* and a cfg_scale of 1.0 to 20.0, the omitted ones at 3.0, 42 and 5.0.
Admissible(req) ==
  /\ Len(req.text) = 1 /\ req.text[1] \in 1..2000
  /\ (IF req.duration = <<>> THEN 30 ELSE req.duration[1]) \in 5..300
  /\ (IF req.seed = <<>> THEN 42 ELSE req.seed[1]) >= 0
  /\ (IF req.cfg_scale = <<>> THEN 50 ELSE req.cfg_scale[1]) \in 10..200

\* C11: a request is passed to the handler exactly when its body is
\* admissible; any other body is answered 422 in the step that receives it,
\* which touches no shared state, and from then to its response the request
\* never enters get_runtime, owns no directory and no handle, and no
\* constructor, applier or directory is started.
C11_ValidatedAtBoundary ==
  [][/\ (pc[Observed] = "idle" /\ pc'[Observed] # "idle") =>
          IF Admissible(probe'.req)
            THEN pc'[Observed] = "gr_test" /\ status'[Observed] = 0
            ELSE /\ pc'[Observed] = "respond" /\ status'[Observed] = 422
                 /\ shared' = shared
     /\ (pc[Observed] # "idle" /\ ~Admissible(probe.req)) =>
          /\ pc[Observed] = "respond" /\ status[Observed] = 422
          /\ tmpdir[Observed] = 0 /\ runtime[Observed] = None
          /\ pc'[Observed] \in {"respond", "idle"}
          /\ ctorCalls' = ctorCalls /\ applyCalls' = applyCalls
          /\ _runtime' = _runtime /\ workspaces' = workspaces]_vars

\* A body with a duration of 0.4 has been answered 422 while there is no
\* handle, and nothing was constructed for it.
C11_Witness ==
  /\ probe.stage = "request" /\ probe.req.duration = <<4>>
  /\ probe.req.text = <<1>>
  /\ pc[Observed] = "respond" /\ status[Observed] = 422
  /\ _runtime = None /\ ctorCalls = 0 /\ workspaces = {}

\* The profile an environment sets, when it sets one to an integer.
SetsProfile == env.MMGP_PROFILE # Unset /\ env.MMGP_PROFILE[1] \in DOMAIN IntLiterals
Profile == IntLiterals[env.MMGP_PROFILE[1]]
SetsVerbose == env.MMGP_VERBOSE = Unset \/ env.MMGP_VERBOSE[1] \in DOMAIN IntLiterals

\* C12: under a profile <= 0 the applier neither extracts nor calls the
\* tuning pass; whenever it calls the tuning pass, it passes the profile,
\* with no budgets for profile 1 or 3 and with the fixed budget for any
\* other; it calls the tuning pass for every positive profile when mmgp
\* imports, components are extracted and the verbosity is an integer; and it
\* never calls it when the extraction returns nothing.
C12_Dispatch ==
  (probe.stage = "applied" /\ SetsProfile) =>
    LET r == probe.result
    IN  /\ r.raised = ""
        /\ Profile <= 0 => (~r.extracted /\ ~r.invoked)
        /\ r.invoked =>
             /\ r.profile_no = Profile
             /\ r.budget = (IF Profile \in {1, 3} THEN 0 ELSE MMGP_BUDGET)
        /\ (Profile > 0 /\ probe.imp = "ok" /\ probe.pipe = "components"
              /\ SetsVerbose) => r.invoked
        /\ probe.pipe = "empty" => (~r.invoked /\ ~r.tuned)

\* Profile 3 has been applied: the tuning pass ran with no budgets.
C12_Witness ==
  /\ probe.stage = "applied" /\ env.MMGP_PROFILE = <<"3">>
  /\ probe.result.invoked /\ probe.result.tuned
  /\ probe.result.profile_no = 3 /\ probe.result.budget = 0

\* C13: when the get_runtime call of the startup preload has raised, the
\* next step of lifespan is the yield, which puts the service in its serving
\* phase; nothing of the failed call is retained (_runtime is None and no
\* handle was handed out), so that the first request to test _runtime finds
\* None and goes on to construct.
C13_PreloadBestEffort ==
  [][(pc[Startup] = "lifespan_yield" /\ exc[Startup] # "") =>
       /\ _runtime = None /\ returned = {}
       /\ pc'[Startup] # "lifespan_yield" =>
            /\ phase' = "serving" /\ exc'[Startup] = ""
            /\ _runtime' = None
            /\ \A t \in Workers : pc'[t] = "idle"]_vars

\* C14: GET /health can be answered in every state of the serving service,
\* and the answer is 200 with status ok and leaves all of the service's
\* state as it was: the singleton, the handles, the constructor and applier
\* counters, the directories, and every request in progress.
C14_HealthFrame ==
  [][/\ (phase = "serving" /\ probe = NoAnswer) => ENABLED HealthObserved
     /\ probe' # probe =>
          /\ probe'.code = 200 /\ probe'.body = [status |-> "ok"]
          /\ _runtime' = _runtime /\ handles' = handles
          /\ ctorCalls' = ctorCalls /\ ctorOk' = ctorOk
          /\ applyCalls' = applyCalls /\ returned' = returned
          /\ workspaces' = workspaces
          /\ locals' = locals]_vars

\* GET /health has been answered while one request constructs a handle and
\* another is in its generate call on an earlier one.
C14_Witness ==
  /\ probe.code = 200 /\ probe.body = [status |-> "ok"]
  /\ \E t \in Workers, u \in Workers :
       pc[t] = "gr_ctor" /\ pc[u] = "generating" /\ _runtime # None

\* C15: a get_runtime call that finds the config file goes on to the
\* constructor whether or not the checkpoint file is there, passing
\* skip_model_loading = TRUE exactly when the checkpoint file is absent at
\* that moment; no call raises FileNotFoundError while the config file is
\* there; and the handle the constructor returns is stored and goes on to
\* the applier.
C15_DegradedConstruct ==
  [][\A t \in Threads :
       /\ (pc[t] = "gr_config" /\ pc'[t] # "gr_config" /\ configExists) =>
            /\ pc'[t] = "gr_ctor" /\ exc'[t] = ""
            /\ skip_loading'[t] = ~ckptExists
       /\ (InGetRuntime(t) /\ exc'[t] = "FileNotFoundError") => ~configExists
       /\ (pc[t] = "gr_ctor" /\ pc'[t] \notin {"gr_ctor", "gr_apply"}) =>
            exc'[t] = "RuntimeError"
       /\ (pc[t] = "gr_ctor" /\ pc'[t] = "gr_apply") =>
            (_runtime' # None /\ _runtime' = ctorOk')]_vars

\* With the config file present and the checkpoint file absent, a request
\* is in the constructor with weight loading skipped.
C15_Witness ==
  \E t \in Workers :
    /\ pc[t] = "gr_ctor" /\ skip_loading[t]
    /\ configExists /\ ~ckptExists /\ exc[t] = ""

\* C16: whenever a generate call is in flight on a handle, one _apply_mmgp
\* call on that handle has ended and none is running; and get_runtime
\* never returns a handle whose _apply_mmgp call has not ended.
C16_InitializedBeforeUse ==
  [][/\ \A t \in Generating :
          handles[runtime[t]].begun = 1 /\ handles[runtime[t]].done = 1
     /\ \A t \in Threads :
          (pc[t] = "gr_return" /\ pc'[t] # "gr_return") =>
            handles[runtime'[t]].done >= 1]_vars

\* C17: _tensor_to_list returns without raising for a plain nested list, a
\* host array and a device tensor alike, each holding at least one sample;
\* for the arrays the result is the plain sequence of sample 0, and for a
\* plain list it is the list itself.
C17_SerializerTotal ==
  (probe.stage = "serialized" /\ Len(probe.x.data) >= 1) =>
    /\ probe.result.ok
    /\ probe.result.val =
         (IF probe.x.kind = "list" THEN probe.x.data ELSE probe.x.data[1])

\* C18: with MMGP_PROFILE unset, the applier calls the tuning pass (when
\* mmgp imports, components are extracted and the verbosity is an integer)
\* with profile number 3 and no budgets.
C18_DefaultProfile ==
  (/\ probe.stage = "applied" /\ env.MMGP_PROFILE = Unset /\ SetsVerbose
   /\ probe.imp = "ok" /\ probe.pipe = "components") =>
    /\ probe.result.invoked
    /\ probe.result.profile_no = 3
    /\ probe.result.budget = 0

====
